---- MODULE Spec2Model ----
(***************************************************************************)
(* Model of daily_job_alert.py: one scheduled run loads the seen-set file, *)
(* calls the five source fetchers in order, aggregates and de-duplicates   *)
(* their jobs, renders the digest, sends (or previews) the email and, when *)
(* the send returned, persists the seen-set.  Runs repeat; the only state  *)
(* that survives a run is the seen-set file.                               *)
(*                                                                         *)
(* Text is modelled structurally: a host name is a sequence of one-letter  *)
(* strings, a company name a sequence of code points (Python compares      *)
(* strings by code point), a URL a record of the parts urlparse yields.    *)
(***************************************************************************)
EXTENDS Integers, Sequences, FiniteSets, TLC

\* ------------------------------------------------------------------ bounds

\* Number of raw postings in the long response of a source (more than the cap).
MaxRaw == 6

\* ------------------------------------------------------- program constants

\* jobs[:5], soup.select(...)[:5], section.select("li a")[:5]
PerSourceCap == 5

\* soup.select("section.jobs")[:3]
WwrSectionCap == 3

\* ------------------------------------------------------------ text helpers

\* os.getenv of a variable that is not set.
None == "<None>"

\* A value that may be missing (a JSON key, an HTML element, an attribute):
\* the empty sequence when missing, a one-element sequence when present.
Absent == <<>>
Some(v) == <<v>>
IsPresent(o) == o # <<>>

\* dict.get(key, default)
GetOr(o, default) == IF IsPresent(o) THEN o[1] ELSE default

Min(a, b) == IF a <= b THEN a ELSE b

\* s[:n]
Take(s, n) == SubSeq(s, 1, Min(n, Len(s)))

\* The concatenation of a sequence of sequences.
RECURSIVE Flatten(_)
Flatten(ss) == IF ss = <<>> THEN <<>> ELSE Head(ss) \o Flatten(Tail(ss))

\* {job["link"] for job in jobs}
LinksOf(js) == {js[i].link : i \in 1..Len(js)}

\* str.lower() on one character.
LowerChar(c) ==
    CASE c = "A" -> "a" [] c = "B" -> "b" [] c = "C" -> "c" [] c = "D" -> "d"
      [] c = "E" -> "e" [] c = "F" -> "f" [] c = "G" -> "g" [] c = "H" -> "h"
      [] c = "I" -> "i" [] c = "J" -> "j" [] c = "K" -> "k" [] c = "L" -> "l"
      [] c = "M" -> "m" [] c = "N" -> "n" [] c = "O" -> "o" [] c = "P" -> "p"
      [] c = "Q" -> "q" [] c = "R" -> "r" [] c = "S" -> "s" [] c = "T" -> "t"
      [] c = "U" -> "u" [] c = "V" -> "v" [] c = "W" -> "w" [] c = "X" -> "x"
      [] c = "Y" -> "y" [] c = "Z" -> "z" [] OTHER -> c

Lower(s) == [i \in 1..Len(s) |-> LowerChar(s[i])]

\* s.startswith(p)
StartsWith(s, p) == Len(s) >= Len(p) /\ SubSeq(s, 1, Len(p)) = p

\* sub in s
Contains(s, sub) ==
    \E i \in 0..(Len(s) - Len(sub)) : SubSeq(s, i + 1, i + Len(sub)) = sub

\* --------------------------------------------------------------------- URLs

\* A URL string, by the parts urlparse splits it into.  A relative reference
\* ("/c", "#", "") has no scheme and an empty netloc.
Url(scheme, netloc, path) == [scheme |-> scheme, netloc |-> netloc, path |-> path]

\* link.startswith("http")
StartsWithHttp(u) == u.scheme \in {"http", "https"}

\* "https://<site>" + href
Prefixed(site, href) == Url("https", site, href.path)

FREE_DOMAINS == {
    <<"r","e","m","o","t","i","v","e",".","c","o","m">>,
    <<"r","e","m","o","t","i","v","e",".","i","o">>,
    <<"w","e","w","o","r","k","r","e","m","o","t","e","l","y",".","c","o","m">>,
    <<"w","e","l","l","f","o","u","n","d",".","c","o","m">>,
    <<"a","n","g","e","l",".","c","o">>,
    <<"j","o","b","s","p","r","e","s","s","o",".","c","o">>,
    <<"i","n","d","e","e","d",".","c","o","m">>,
    <<"g","l","a","s","s","d","o","o","r",".","c","o","m">>,
    <<"b","u","i","l","t","i","n",".","c","o","m">>,
    <<"l","i","n","k","e","d","i","n",".","c","o","m">>,
    <<"s","t","a","c","k","o","v","e","r","f","l","o","w",".","c","o","m">>,
    <<"a","r","b","e","i","t","n","o","w",".","c","o","m">>,
    <<"f","l","e","x","j","o","b","s",".","c","o","m">>,
    <<"r","e","m","o","t","e","c","o",".","c","o","m">>,
    <<"w","o","r","k","i","n","g","n","o","t","w","o","r","k","i","n","g",".","c","o","m">> }

PaidWords == {
    <<"p","r","e","m","i","u","m">>,
    <<"p","a","y">>,
    <<"s","u","b","s","c","r","i","p","t","i","o","n">> }

\* apply_host_from_url
apply_host_from_url(u) ==
    LET host == Lower(u.netloc)
    IN  IF StartsWith(host, <<"w","w","w",".">>)
        THEN SubSeq(host, 5, Len(host))
        ELSE host

\* is_likely_free_apply
is_likely_free_apply(u) ==
    LET host == apply_host_from_url(u)
    IN  IF host = <<>> THEN FALSE
        ELSE IF \E domain \in FREE_DOMAINS : Contains(host, domain) THEN TRUE
        ELSE IF \E w \in PaidWords : Contains(host, w) THEN FALSE
        ELSE TRUE

\* ---------------------------------------------------------- seen-set store

\* The content of SEEN_JOBS_FILE: no readable JSON file, or a JSON array.
NoFile == [present |-> FALSE, links |-> {}]
JsonFile(links) == [present |-> TRUE, links |-> links]

\* load_seen_jobs
load_seen_jobs(f) == IF f.present THEN f.links ELSE {}

\* save_seen_jobs
save_seen_jobs(links) == JsonFile(links)

\* --------------------------------------------------------------------- jobs

\* "Unknown"
Unknown == <<85,110,107,110,111,119,110>>

\* The Job dict.  keywords and skills are literals fixed per fetcher and play
\* no part in aggregation, ordering or persistence; they are left out.
Job(company, title, link) ==
    [company       |-> company,
     title         |-> title,
     link          |-> link,
     apply_host    |-> apply_host_from_url(link),
     free_to_apply |-> is_likely_free_apply(link)]

\* One raw posting of a response (a JSON object, a .job / .job-card element,
\* an <a> of a section).  frontend and remote are the outcomes of the keyword
\* and remote tests on its text; broken makes the code that reads it raise
\* (a null where a string is expected, a element without the attribute).
Raw(title, company, url, frontend, remote, broken) ==
    [title |-> title, company |-> company, url |-> url,
     frontend |-> frontend, remote |-> remote, broken |-> broken]

\* A response of a source: safe_request raised, or the postings it returned.
NetworkError == [error |-> TRUE, items |-> <<>>]
Page(items) == [error |-> FALSE, items |-> items]

AnyBroken(items) == \E i \in 1..Len(items) : items[i].broken

\* ------------------------------------------------------------ the fetchers

RemoteokSite == <<"r","e","m","o","t","e","o","k",".","i","o">>
JsjobbsSite == <<"j","s","j","o","b","b","s",".","c","o","m">>
WwrSite == <<"w","e","w","o","r","k","r","e","m","o","t","e","l","y",".","c","o","m">>

\* "#", the default of job.get("url", "#"), and "", that of a.get("href", "")
HashUrl == Url("", <<>>, "#")
EmptyUrl == Url("", <<>>, "")

\* if not link.startswith("http"): link = "https://<site>" + link
AbsoluteLink(site, href) ==
    IF StartsWithHttp(href) THEN href ELSE Prefixed(site, href)

\* All three of title, company and link elements were found.
Complete(r) == IsPresent(r.title) /\ IsPresent(r.company) /\ IsPresent(r.url)

ArbeitnowKeep(r) == r.frontend /\ r.remote
RemotiveKeep(r) == r.frontend
JsonJob(r) == Job(GetOr(r.company, Unknown), GetOr(r.title, ""), GetOr(r.url, HashUrl))

\* Each fetcher is "try: <body> except Exception: return []": XRaises says
\* when the body raises, XJobs what it returns when it does not.

\* safe_request raises, or reading a posting does.
ArbeitnowRaises(resp) == resp.error \/ AnyBroken(resp.items)

\* The remote frontend postings, then jobs[:5].
ArbeitnowJobs(resp) ==
    LET kept == SelectSeq(resp.items, ArbeitnowKeep)
    IN  Take([i \in 1..Len(kept) |-> JsonJob(kept[i])], PerSourceCap)

\* fetch_arbeitnow_jobs
fetch_arbeitnow_jobs(resp) ==
    IF ArbeitnowRaises(resp) THEN <<>> ELSE ArbeitnowJobs(resp)

RemotiveRaises(resp) == resp.error \/ AnyBroken(resp.items)

\* The frontend postings, then jobs[:5].
RemotiveJobs(resp) ==
    LET kept == SelectSeq(resp.items, RemotiveKeep)
    IN  Take([i \in 1..Len(kept) |-> JsonJob(kept[i])], PerSourceCap)

\* fetch_remotive_jobs
fetch_remotive_jobs(resp) ==
    IF RemotiveRaises(resp) THEN <<>> ELSE RemotiveJobs(resp)

RemoteokJob(r) == Job(r.company[1], r.title[1], AbsoluteLink(RemoteokSite, r.url[1]))

RemoteokRaises(resp) == resp.error \/ AnyBroken(Take(resp.items, PerSourceCap))

\* The first five .job elements, those with all three parts.
RemoteokJobs(resp) ==
    LET kept == SelectSeq(Take(resp.items, PerSourceCap), Complete)
    IN  [i \in 1..Len(kept) |-> RemoteokJob(kept[i])]

\* fetch_remoteok_jobs
fetch_remoteok_jobs(resp) ==
    IF RemoteokRaises(resp) THEN <<>> ELSE RemoteokJobs(resp)

JsjobbsJob(r) == Job(r.company[1], r.title[1], AbsoluteLink(JsjobbsSite, r.url[1]))

\* A card without one of its parts raises too: select_one gives None.
JsjobbsRaises(resp) ==
    LET cards == Take(resp.items, PerSourceCap)
    IN  resp.error \/ AnyBroken(cards)
           \/ \E i \in 1..Len(cards) : ~Complete(cards[i])

\* The first five .job-card elements.
JsjobbsJobs(resp) ==
    LET cards == Take(resp.items, PerSourceCap)
    IN  [i \in 1..Len(cards) |-> JsjobbsJob(cards[i])]

\* fetch_jsjobbs_jobs
fetch_jsjobbs_jobs(resp) ==
    IF JsjobbsRaises(resp) THEN <<>> ELSE JsjobbsJobs(resp)

WwrTitled(a) == GetOr(a.title, "") # ""
WwrJob(a) ==
    Job(IF GetOr(a.company, <<>>) = <<>> THEN Unknown ELSE a.company[1],
        a.title[1],
        AbsoluteLink(WwrSite, GetOr(a.url, EmptyUrl)))

\* for a in section.select("li a")[:5]: ... if not title: continue
WwrSectionJobs(section) ==
    LET kept == SelectSeq(Take(section, PerSourceCap), WwrTitled)
    IN  [i \in 1..Len(kept) |-> WwrJob(kept[i])]

\* The items of a WWR response are its section.jobs elements, each a
\* sequence of anchors; the first three sections are read.
WwrSections(resp) == Take(resp.items, WwrSectionCap)

WwrRaises(resp) ==
    \/ resp.error
    \/ \E s \in 1..Len(WwrSections(resp)) :
          AnyBroken(Take(WwrSections(resp)[s], PerSourceCap))

\* The titled anchors of every section read, section after section.
WwrJobs(resp) ==
    Flatten([s \in 1..Len(WwrSections(resp)) |-> WwrSectionJobs(WwrSections(resp)[s])])

\* fetch_wwr_jobs
fetch_wwr_jobs(resp) ==
    IF WwrRaises(resp) THEN <<>> ELSE WwrJobs(resp)

\* sources, in the order fetch_all_jobs calls them
sources == <<"fetch_arbeitnow_jobs", "fetch_remotive_jobs", "fetch_wwr_jobs",
             "fetch_jsjobbs_jobs", "fetch_remoteok_jobs">>

\* The body of func raises on resp.
FetcherRaises(func, resp) ==
    CASE func = "fetch_arbeitnow_jobs" -> ArbeitnowRaises(resp)
      [] func = "fetch_remotive_jobs"  -> RemotiveRaises(resp)
      [] func = "fetch_wwr_jobs"       -> WwrRaises(resp)
      [] func = "fetch_jsjobbs_jobs"   -> JsjobbsRaises(resp)
      [] func = "fetch_remoteok_jobs"  -> RemoteokRaises(resp)

\* func()
CallFetcher(func, resp) ==
    CASE func = "fetch_arbeitnow_jobs" -> fetch_arbeitnow_jobs(resp)
      [] func = "fetch_remotive_jobs"  -> fetch_remotive_jobs(resp)
      [] func = "fetch_wwr_jobs"       -> fetch_wwr_jobs(resp)
      [] func = "fetch_jsjobbs_jobs"   -> fetch_jsjobbs_jobs(resp)
      [] func = "fetch_remoteok_jobs"  -> fetch_remoteok_jobs(resp)

\* -------------------------------------------------------------- aggregation

\* The loop of fetch_all_jobs over the concatenated jobs: seen_links and
\* unique_jobs are its accumulators.
RECURSIVE DedupeLoop(_, _, _, _)
DedupeLoop(js, seen, seen_links, unique) ==
    IF js = <<>> THEN unique
    ELSE LET job == Head(js)
         IN  IF job.link \notin seen_links /\ job.link \notin seen
             THEN DedupeLoop(Tail(js), seen, seen_links \cup {job.link},
                             Append(unique, job))
             ELSE DedupeLoop(Tail(js), seen, seen_links, unique)

\* Mutant: duplicates are removed, jobs already seen are not.
RemoveDuplicates_KeepsSeen(js, seen) == DedupeLoop(js, {}, {}, <<>>)

\* "Remove duplicates and seen jobs"
RemoveDuplicates(js, seen) == DedupeLoop(js, seen, {}, <<>>)

\* ---------------------------------------------------------------- rendering

\* a < b on strings (sequences of code points)
RECURSIVE StrLess(_, _)
StrLess(a, b) ==
    IF b = <<>> THEN FALSE
    ELSE IF a = <<>> THEN TRUE
    ELSE IF Head(a) # Head(b) THEN Head(a) < Head(b)
    ELSE StrLess(Tail(a), Tail(b))

\* Mutant: the key is (free_to_apply, company), which puts the free jobs last.
SortKeyLess_FreeLast(a, b) ==
    \/ ~a.free_to_apply /\ b.free_to_apply
    \/ a.free_to_apply = b.free_to_apply /\ StrLess(a.company, b.company)

\* key(a) < key(b) for key = lambda j: (not j["free_to_apply"], j["company"])
SortKeyLess(a, b) ==
    \/ a.free_to_apply /\ ~b.free_to_apply
    \/ a.free_to_apply = b.free_to_apply /\ StrLess(a.company, b.company)

\* j placed after every element whose key is not greater (sorted is stable)
RECURSIVE InsertByKey(_, _)
InsertByKey(s, j) ==
    IF s = <<>> THEN <<j>>
    ELSE IF SortKeyLess(j, Head(s)) THEN <<j>> \o s
    ELSE <<Head(s)>> \o InsertByKey(Tail(s), j)

\* sorted(jobs, key=...)
RECURSIVE SortedJobs(_)
SortedJobs(js) ==
    IF js = <<>> THEN <<>>
    ELSE InsertByKey(SortedJobs(SubSeq(js, 1, Len(js) - 1)), js[Len(js)])

\* One <tr> of the table.
Row(i, j) ==
    [num |-> i, company |-> j.company, title |-> j.title, link |-> j.link,
     apply_host |-> j.apply_host,
     free_badge |-> IF j.free_to_apply THEN "Free" ELSE "Maybe Paid"]

\* create_html_table: the document, by its rows and the count in its header.
create_html_table(js) ==
    LET sorted == SortedJobs(js)
    IN  [rows  |-> [i \in 1..Len(sorted) |-> Row(i, sorted[i])],
         found |-> Len(sorted)]

\* ------------------------------------------- what the sources may answer

Zed == <<90,101,100>>
Ab == <<65,98>>
ab == <<97,98>>

RemotiveUrl ==
    Url("https", <<"w","w","w",".","R","e","m","o","t","i","v","e",".","c","o","m">>, "/a")
PaywallUrl == Url("https", <<"p","a","y","w","a","l","l",".","i","o">>, "/b")
RelativeUrl == Url("", <<>>, "/c")

Posting(title, company, url) == Raw(Some(title), Some(company), Some(url), TRUE, TRUE, FALSE)

PFree == Posting("Frontend Dev", Zed, RemotiveUrl)
PFree2 == Posting("UI Engineer", ab, RemotiveUrl)
PPaid == Posting("React Dev", Ab, PaywallUrl)
PPaid2 == Posting("Vue Dev", Zed, PaywallUrl)
PRelative == Posting("Web Dev", Ab, RelativeUrl)
PBare == Raw(Some("Angular Dev"), Absent, Absent, TRUE, TRUE, FALSE)
POnsite == Raw(Some("React Native"), Some(Ab), Some(PaywallUrl), TRUE, FALSE, FALSE)
PBackend == Raw(Some("Chef"), Some(Zed), Some(RemotiveUrl), FALSE, TRUE, FALSE)
PUntitled == Raw(Some(""), Some(Zed), Some(RelativeUrl), TRUE, TRUE, FALSE)
PNoCompany == Raw(Some("CSS Dev"), Absent, Some(RelativeUrl), TRUE, TRUE, FALSE)
PBroken == Raw(Some("Frontend"), Some(Ab), Some(RemotiveUrl), TRUE, TRUE, TRUE)

\* MaxRaw postings, cycling through items
Long(items) == [i \in 1..MaxRaw |-> items[((i - 1) % Len(items)) + 1]]

\* The answers each source is given to choose from.
ArbeitnowAnswers ==
    << NetworkError,
       Page(<<PBackend, PFree, POnsite, PPaid>>),
       Page(Long(<<PPaid, PFree, PBare>>)) >>

RemotiveAnswers ==
    << Page(<<PFree, PBroken>>),
       Page(<<POnsite, PFree2>>),
       Page(Long(<<PFree2, PBare>>)) >>

WwrAnswers ==
    << NetworkError,
       Page(<< <<PNoCompany, PUntitled>> >>),
       Page(<< <<PPaid2>>, <<>>, <<PFree>>, <<PRelative>> >>),
       Page(<< Long(<<PRelative, PFree>>), Long(<<PPaid, PFree2>>) >>) >>

JsjobbsAnswers ==
    << Page(<<PFree, PBare>>),
       Page(<<PPaid2, PFree>>),
       Page(Long(<<PFree2, PPaid>>)) >>

RemoteokAnswers ==
    << Page(<<>>),
       Page(<<PBare, PFree2>>),
       Page(Long(<<PPaid2, PFree>>)) >>

Responses(func) ==
    CASE func = "fetch_arbeitnow_jobs" -> ArbeitnowAnswers
      [] func = "fetch_remotive_jobs"  -> RemotiveAnswers
      [] func = "fetch_wwr_jobs"       -> WwrAnswers
      [] func = "fetch_jsjobbs_jobs"   -> JsjobbsAnswers
      [] func = "fetch_remoteok_jobs"  -> RemoteokAnswers

\* What the environment may hold: DRY_RUN, EMAIL_USER, EMAIL_PASS.
Environments ==
    { <<TRUE, None, None>>,
      <<FALSE, None, "secret">>,
      <<FALSE, "me@example.com", None>>,
      <<FALSE, "me@example.com", "secret">> }

\* How the SMTP session may fail: connecting, server.login, server.send_message.
SmtpFailures == {"connect", "login", "send_message"}

\* -------------------------------------------------------------------- state

VARIABLES
    file,           \* content of seen_jobs.json
    DRY_RUN,        \* module globals read from the environment
    EMAIL_USER,
    EMAIL_PASS,
    pc,             \* where main is: idle, fetch, fetched, send, save, exited
    seen_jobs,      \* main's seen_jobs
    calls,          \* the fetchers called so far, each with the answer it got
    jobs,           \* fetch_all_jobs' jobs
    unique_jobs,    \* main's jobs (what fetch_all_jobs returned)
    html,           \* main's html, once rendered
    exit_code,      \* the exit status, once exited (-1 before)
    notify,         \* send_email: "none", "returned" or "raised"
    smtp_opened,    \* smtplib.SMTP_SSL was called in this run
    email_sent,     \* server.send_message returned in this run
    previewed,      \* the dry-run preview was printed in this run
    save_called,    \* save_seen_jobs was called in this run
    file_at_start,  \* the file as this run found it
    watched         \* one link that a dry run persisted, if any was picked

vars == <<file, DRY_RUN, EMAIL_USER, EMAIL_PASS, pc, seen_jobs, calls, jobs,
          unique_jobs, html, exit_code, notify, smtp_opened, email_sent,
          previewed, save_called, file_at_start, watched>>

env == <<DRY_RUN, EMAIL_USER, EMAIL_PASS>>
effects == <<smtp_opened, email_sent, previewed, save_called>>

Init ==
    /\ file = NoFile
    /\ DRY_RUN = TRUE
    /\ EMAIL_USER = None
    /\ EMAIL_PASS = None
    /\ pc = "idle"
    /\ seen_jobs = {}
    /\ calls = <<>>
    /\ jobs = <<>>
    /\ unique_jobs = <<>>
    /\ html = Absent
    /\ exit_code = -1
    /\ notify = "none"
    /\ smtp_opened = FALSE
    /\ email_sent = FALSE
    /\ previewed = FALSE
    /\ save_called = FALSE
    /\ file_at_start = NoFile
    /\ watched = Absent

\* sys.exit(code), or main returning (code 0)
Exit(code) == pc' = "exited" /\ exit_code' = code

\* The scheduler starts a run: the module reads its configuration, main
\* loads the seen-set.
Start ==
    /\ pc \in {"idle", "exited"}
    /\ \E e \in Environments :
          /\ DRY_RUN' = e[1]
          /\ EMAIL_USER' = e[2]
          /\ EMAIL_PASS' = e[3]
    /\ seen_jobs' = load_seen_jobs(file)
    /\ file_at_start' = file
    /\ pc' = "fetch"
    /\ calls' = <<>>
    /\ jobs' = <<>>
    /\ unique_jobs' = <<>>
    /\ html' = Absent
    /\ exit_code' = -1
    /\ notify' = "none"
    /\ smtp_opened' = FALSE
    /\ email_sent' = FALSE
    /\ previewed' = FALSE
    /\ save_called' = FALSE
    /\ UNCHANGED <<file, watched>>

\* Mutant: a fetcher's exception is not caught and ends the run.
FetchNext_Propagates ==
    /\ pc = "fetch"
    /\ Len(calls) < Len(sources)
    /\ LET func == sources[Len(calls) + 1]
       IN  \E k \in 1..Len(Responses(func)) :
              /\ calls' = Append(calls, [func |-> func, answer |-> k])
              /\ IF FetcherRaises(func, Responses(func)[k])
                 THEN jobs' = jobs /\ Exit(1)
                 ELSE /\ jobs' = jobs \o CallFetcher(func, Responses(func)[k])
                      /\ UNCHANGED <<pc, exit_code>>
    /\ UNCHANGED <<file, env, seen_jobs, unique_jobs, html,
                   notify, effects, file_at_start, watched>>

\* One turn of "for func in sources": the next fetcher is called and its
\* jobs are appended.
FetchNext ==
    /\ pc = "fetch"
    /\ Len(calls) < Len(sources)
    /\ LET func == sources[Len(calls) + 1]
       IN  \E k \in 1..Len(Responses(func)) :
              /\ jobs' = jobs \o CallFetcher(func, Responses(func)[k])
              /\ calls' = Append(calls, [func |-> func, answer |-> k])
    /\ UNCHANGED <<file, env, pc, seen_jobs, unique_jobs, html, exit_code,
                   notify, effects, file_at_start, watched>>

\* Mutant: no jobs at all is taken for "nothing new" and the run exits 0.
NoJobsFound_ExitsZero ==
    /\ pc = "fetch"
    /\ Len(calls) = Len(sources)
    /\ jobs = <<>>
    /\ Exit(0)
    /\ UNCHANGED <<file, env, seen_jobs, calls, jobs, unique_jobs, html,
                   notify, effects, file_at_start, watched>>

\* "if not jobs: raise RuntimeError", caught by main: sys.exit(1)
NoJobsFound ==
    /\ pc = "fetch"
    /\ Len(calls) = Len(sources)
    /\ jobs = <<>>
    /\ Exit(1)
    /\ UNCHANGED <<file, env, seen_jobs, calls, jobs, unique_jobs, html,
                   notify, effects, file_at_start, watched>>

\* fetch_all_jobs removes duplicates and seen jobs and returns.
ReturnUniqueJobs ==
    /\ pc = "fetch"
    /\ Len(calls) = Len(sources)
    /\ jobs # <<>>
    /\ unique_jobs' = RemoveDuplicates(jobs, seen_jobs)
    /\ pc' = "fetched"
    /\ UNCHANGED <<file, env, seen_jobs, calls, jobs, html, exit_code,
                   notify, effects, file_at_start, watched>>

\* Mutant: the empty check is missing and an empty digest is rendered.
NoNewJobs_Renders ==
    /\ pc = "fetched"
    /\ unique_jobs = <<>>
    /\ html' = Some(create_html_table(unique_jobs))
    /\ pc' = "send"
    /\ UNCHANGED <<file, env, seen_jobs, calls, jobs, unique_jobs, exit_code,
                   notify, effects, file_at_start, watched>>

\* "if not jobs: ... return"
NoNewJobs ==
    /\ pc = "fetched"
    /\ unique_jobs = <<>>
    /\ Exit(0)
    /\ UNCHANGED <<file, env, seen_jobs, calls, jobs, unique_jobs, html,
                   notify, effects, file_at_start, watched>>

\* html = create_html_table(jobs)
Render ==
    /\ pc = "fetched"
    /\ unique_jobs # <<>>
    /\ html' = Some(create_html_table(unique_jobs))
    /\ pc' = "send"
    /\ UNCHANGED <<file, env, seen_jobs, calls, jobs, unique_jobs, exit_code,
                   notify, effects, file_at_start, watched>>

\* Mutant: only EMAIL_USER is checked.
CredentialsMissing_UserOnly == EMAIL_USER \in {None, ""}

\* "not EMAIL_USER or not EMAIL_PASS"
CredentialsMissing == EMAIL_USER \in {None, ""} \/ EMAIL_PASS \in {None, ""}

\* send_email in dry-run mode: the preview is printed, nothing is sent.
SendDryRun ==
    /\ pc = "send"
    /\ DRY_RUN
    /\ previewed' = TRUE
    /\ notify' = "returned"
    /\ pc' = "save"
    /\ UNCHANGED <<file, env, seen_jobs, calls, jobs, unique_jobs, html,
                   exit_code, smtp_opened, email_sent, save_called,
                   file_at_start, watched>>

\* send_email raises for the missing credentials; main exits 1.
SendMissingCredentials ==
    /\ pc = "send"
    /\ ~DRY_RUN
    /\ CredentialsMissing
    /\ notify' = "raised"
    /\ Exit(1)
    /\ UNCHANGED <<file, env, seen_jobs, calls, jobs, unique_jobs, html,
                   effects, file_at_start, watched>>

\* The SMTP session succeeds: send_email returns.
SendSmtpOk ==
    /\ pc = "send"
    /\ ~DRY_RUN
    /\ ~CredentialsMissing
    /\ smtp_opened' = TRUE
    /\ email_sent' = TRUE
    /\ notify' = "returned"
    /\ pc' = "save"
    /\ UNCHANGED <<file, env, seen_jobs, calls, jobs, unique_jobs, html,
                   exit_code, previewed, save_called, file_at_start, watched>>

\* Mutant: the failure of the SMTP session is swallowed and main goes on.
SendSmtpFails_Swallowed ==
    /\ pc = "send"
    /\ ~DRY_RUN
    /\ EMAIL_USER \notin {None, ""}
    /\ EMAIL_PASS \notin {None, ""}
    /\ \E failure \in SmtpFailures :
          /\ smtp_opened' = TRUE
          /\ notify' = "raised"
          /\ pc' = "save"
    /\ UNCHANGED <<file, env, seen_jobs, calls, jobs, unique_jobs, html,
                   exit_code, email_sent, previewed, save_called,
                   file_at_start, watched>>

\* The SMTP session fails: send_email raises, main exits 1.
SendSmtpFails ==
    /\ pc = "send"
    /\ ~DRY_RUN
    /\ ~CredentialsMissing
    /\ \E failure \in SmtpFailures :
          /\ smtp_opened' = TRUE
          /\ notify' = "raised"
          /\ Exit(1)
    /\ UNCHANGED <<file, env, seen_jobs, calls, jobs, unique_jobs, html,
                   email_sent, previewed, save_called, file_at_start, watched>>

\* Mutant: only this run's links are saved; the loaded seen-set is dropped.
UpdateSeenJobs_OnlyNew ==
    /\ pc = "save"
    /\ seen_jobs' = LinksOf(unique_jobs)
    /\ file' = save_seen_jobs(seen_jobs')
    /\ save_called' = TRUE
    /\ watched' = watched
    /\ Exit(0)
    /\ UNCHANGED <<env, calls, jobs, unique_jobs, html, notify, smtp_opened,
                   email_sent, previewed, file_at_start>>

\* Mutant: a dry run does not persist the seen-set.
UpdateSeenJobs_LiveOnly ==
    /\ pc = "save"
    /\ seen_jobs' = seen_jobs \cup LinksOf(unique_jobs)
    /\ file' = IF DRY_RUN THEN file ELSE save_seen_jobs(seen_jobs')
    /\ save_called' = ~DRY_RUN
    /\ watched' = watched
    /\ Exit(0)
    /\ UNCHANGED <<env, calls, jobs, unique_jobs, html, notify, smtp_opened,
                   email_sent, previewed, file_at_start>>

\* "Update seen jobs": the links of this run's jobs are added and saved;
\* main returns.  watched is history only: after a dry run it may come to
\* hold any one of the links just persisted, so that what holds of watched
\* holds of every link a dry run persisted.
UpdateSeenJobs ==
    /\ pc = "save"
    /\ seen_jobs' = seen_jobs \cup LinksOf(unique_jobs)
    /\ file' = save_seen_jobs(seen_jobs')
    /\ save_called' = TRUE
    /\ watched' \in IF DRY_RUN
                     THEN {watched} \cup {Some(l) : l \in LinksOf(unique_jobs)}
                     ELSE {watched}
    /\ Exit(0)
    /\ UNCHANGED <<env, calls, jobs, unique_jobs, html, notify, smtp_opened,
                   email_sent, previewed, file_at_start>>

Next ==
    \/ Start
    \/ FetchNext
    \/ NoJobsFound
    \/ ReturnUniqueJobs
    \/ NoNewJobs
    \/ Render
    \/ SendDryRun
    \/ SendMissingCredentials
    \/ SendSmtpOk
    \/ SendSmtpFails
    \/ UpdateSeenJobs

Spec == Init /\ [][Next]_vars

\* ------------------------------------------------------------------ claims

\* The answer the i-th fetcher called got, and what it returned.
AnswerOf(i) == Responses(calls[i].func)[calls[i].answer]

\* What each fetcher returns on each of its answers.
Returns ==
    [i \in 1..5 |->
        [k \in 1..Len(Responses(sources[i])) |->
            CallFetcher(sources[i], Responses(sources[i])[k])]]

ReturnedBy(i) == Returns[i][calls[i].answer]

\* The seen-set this run loaded.
LoadedSeen == load_seen_jobs(file_at_start)

\* The fetch loop of this run is over.
LoopDone == pc \notin {"idle", "fetch"} \/ (pc = "fetch" /\ Len(calls) = 5)

\* fetch_all_jobs has returned in this run.
Aggregated == pc \in {"fetched", "send", "save"} \/ (pc = "exited" /\ jobs # <<>>)

\* The elements of js at the positions in keep, in their order.
PickAt(js, keep) ==
    LET F[n \in 0..Len(js)] ==
            IF n = 0 THEN <<>>
            ELSE IF n \in keep THEN Append(F[n - 1], js[n]) ELSE F[n - 1]
    IN  F[Len(js)]

\* The first occurrence of every link that is not in seen.
FirstNewOccurrences(js, seen) ==
    PickAt(js, {i \in 1..Len(js) :
                  /\ js[i].link \notin seen
                  /\ \A k \in 1..(i - 1) : js[k].link # js[i].link})

\* C1: when send_email raises, the run exits with status 1 and never calls
\* save_seen_jobs: the file is what the run found, and aggregating the same
\* fetch results against it offers the same jobs again.
C1_NotifyFailureKeepsSeenSet ==
    notify = "raised" =>
        /\ pc = "exited"
        /\ exit_code = 1
        /\ ~save_called
        /\ file = file_at_start
        /\ RemoveDuplicates(jobs, load_seen_jobs(file)) = unique_jobs

C1_Witness ==
    /\ notify = "raised"
    /\ smtp_opened
    /\ pc = "exited"
    /\ LoadedSeen # {}
    /\ Len(unique_jobs) >= 2

\* C2: what fetch_all_jobs returns is the concatenation of the source
\* results, in the fixed source order, cut down to the first occurrence of
\* every link that is not in the prior seen-set, in the original order; no
\* two returned jobs share a link and none has a link of the prior seen-set.
C2_FirstOccurrenceOfUnseenLinks ==
    Aggregated =>
        /\ jobs = ReturnedBy(1) \o ReturnedBy(2) \o ReturnedBy(3)
                     \o ReturnedBy(4) \o ReturnedBy(5)
        /\ unique_jobs = FirstNewOccurrences(jobs, LoadedSeen)
        /\ \A i, k \in 1..Len(unique_jobs) :
              unique_jobs[i].link = unique_jobs[k].link => i = k
        /\ LinksOf(unique_jobs) \cap LoadedSeen = {}

C2_Witness ==
    /\ Aggregated
    /\ unique_jobs # <<>>
    /\ LinksOf(jobs) \cap LoadedSeen # {}
    /\ \E i, k \in 1..Len(jobs) :
          /\ i < k
          /\ jobs[i].link = jobs[k].link
          /\ jobs[i].company # jobs[k].company
          /\ jobs[i].link \notin LoadedSeen

\* All five fetchers were called and each returned no job.
AllSourcesEmpty ==
    Len(calls) = 5 /\ \A i \in 1..5 : ReturnedBy(i) = <<>>

\* C3: when every source returned zero jobs, by an empty result or by an
\* error, the run exits with status 1 straight after the fetch loop: nothing
\* is rendered, sent or previewed, and the seen-set file is unchanged.
C3_NoJobsAtAllIsFatal ==
    AllSourcesEmpty =>
        /\ pc \in {"fetch", "exited"}
        /\ pc = "exited" => exit_code = 1
        /\ html = Absent
        /\ ~smtp_opened /\ ~email_sent /\ ~previewed /\ ~save_called
        /\ notify = "none"
        /\ file = file_at_start

C3_Witness ==
    /\ AllSourcesEmpty
    /\ pc = "exited"
    /\ LoadedSeen # {}
    /\ \E i \in 1..5 : AnswerOf(i).error
    /\ \E i \in 1..5 : AnswerOf(i) = Page(<<>>)

\* The links of the rows of the digest rendered in this run.
RenderedLinks ==
    IF html = Absent THEN {}
    ELSE {html[1].rows[i].link : i \in 1..Len(html[1].rows)}

\* C4: the persisted seen-set only grows; the file changes only in a run
\* whose send_email returned, and such a run leaves in it the seen-set it
\* loaded united with the links of exactly the jobs it rendered.
C4_SeenSetOnlyGrows ==
    /\ [][ /\ load_seen_jobs(file) \subseteq load_seen_jobs(file')
           /\ file' # file =>
                 /\ notify = "returned"
                 /\ load_seen_jobs(file') = load_seen_jobs(file) \cup RenderedLinks ]_vars
    /\ [](pc = "exited" =>
             IF notify = "returned"
             THEN file = JsonFile(LoadedSeen \cup RenderedLinks)
             ELSE file = file_at_start)

C4_Witness ==
    /\ pc = "exited"
    /\ notify = "returned"
    /\ LoadedSeen # {}
    /\ RenderedLinks # {}
    /\ file # file_at_start

\* The body of the i-th fetcher called raised.
Failed(i) == FetcherRaises(calls[i].func, AnswerOf(i))

\* What the i-th fetcher called adds to the aggregated list.
Contribution(i) == IF Failed(i) THEN <<>> ELSE ReturnedBy(i)

\* C5: a failing fetcher never aborts the run: whichever sources fail, the
\* five fetchers are called in the fixed order, a failing one contributes
\* nothing, and the aggregated list is the concatenation of what the others
\* returned.
C5_FetcherFailureNeverAborts ==
    /\ [i \in 1..Len(calls) |-> calls[i].func]
          = SubSeq(<<"fetch_arbeitnow_jobs", "fetch_remotive_jobs", "fetch_wwr_jobs",
                     "fetch_jsjobbs_jobs", "fetch_remoteok_jobs">>, 1, Len(calls))
    /\ pc \notin {"idle", "fetch"} => Len(calls) = 5
    /\ jobs = Flatten([i \in 1..Len(calls) |-> Contribution(i)])
    /\ \A i \in 1..Len(calls) : Failed(i) => ReturnedBy(i) = <<>>

C5_Witness ==
    /\ pc = "exited"
    /\ exit_code = 0
    /\ Failed(1) /\ Failed(4)
    /\ ~Failed(2) /\ ~Failed(5)
    /\ ReturnedBy(2) # <<>> /\ ReturnedBy(5) # <<>>

\* C6: every fetcher returns at most 5 jobs per call, whatever the response
\* holds, so no source adds more than 5 jobs to the aggregated list.
C6_AtMostFivePerSource ==
    \A i \in 1..Len(calls) : Len(ReturnedBy(i)) <= 5

\* os.getenv gave nothing for one of the credentials.
CredentialAbsent == EMAIL_USER = None \/ EMAIL_PASS = None

\* C7: in live mode with EMAIL_USER or EMAIL_PASS absent, a run that found a
\* new job fails with the configuration error before any SMTP connection is
\* opened, exits with status 1 and does not persist the seen-set.
C7_MissingCredentialsFailBeforeConnect ==
    (~DRY_RUN /\ CredentialAbsent /\ Aggregated /\ unique_jobs # <<>>) =>
        /\ pc \in {"fetched", "send", "exited"}
        /\ pc = "exited" => (exit_code = 1 /\ notify = "raised")
        /\ ~smtp_opened /\ ~email_sent
        /\ ~save_called
        /\ file = file_at_start

C7_Witness ==
    /\ ~DRY_RUN
    /\ EMAIL_USER # None
    /\ EMAIL_PASS = None
    /\ unique_jobs # <<>>
    /\ pc = "exited"
    /\ notify = "raised"

\* C8: when the sources returned jobs but every fetched link was already in
\* the loaded seen-set, the run is a no-op: exit status 0, nothing rendered,
\* sent or previewed, and the seen-set file unchanged.
C8_NothingNewIsBenign ==
    (LoopDone /\ jobs # <<>> /\ LinksOf(jobs) \subseteq LoadedSeen) =>
        /\ pc \in {"fetch", "fetched", "exited"}
        /\ pc = "exited" => exit_code = 0
        /\ html = Absent
        /\ notify = "none"
        /\ ~smtp_opened /\ ~email_sent /\ ~previewed /\ ~save_called
        /\ file = file_at_start

C8_Witness ==
    /\ pc = "exited"
    /\ exit_code = 0
    /\ jobs # <<>>
    /\ LinksOf(jobs) \subseteq LoadedSeen

\* a <= b on strings
StrLeq(a, b) == ~StrLess(b, a)

\* The row shows the job.
RowOf(row, job) ==
    /\ row.company = job.company
    /\ row.title = job.title
    /\ row.link = job.link
    /\ row.apply_host = job.apply_host
    /\ (row.free_badge = "Free") = job.free_to_apply

\* C9: the digest has exactly one row per job, numbered 1..n; every row of a
\* free-to-apply job comes before every row of one that is not, and within
\* each of the two groups the companies are in non-decreasing order.
C9_OneRowPerJobInSortOrder ==
    html # Absent =>
        LET rows == html[1].rows
            n == Len(unique_jobs)
        IN  /\ Len(rows) = n
            /\ html[1].found = n
            /\ \A i \in 1..n : rows[i].num = i
            /\ \A j \in 1..n :
                  Cardinality({i \in 1..n : RowOf(rows[i], unique_jobs[j])})
                    = Cardinality({k \in 1..n : unique_jobs[k] = unique_jobs[j]})
            /\ \A i, k \in 1..n :
                  i < k =>
                    /\ ~(rows[i].free_badge = "Maybe Paid" /\ rows[k].free_badge = "Free")
                    /\ rows[i].free_badge = rows[k].free_badge
                          => StrLeq(rows[i].company, rows[k].company)

C9_Witness ==
    /\ html # Absent
    /\ \E i, k \in 1..Len(unique_jobs) :
          /\ i < k
          /\ unique_jobs[i].free_to_apply /\ unique_jobs[k].free_to_apply
          /\ StrLess(unique_jobs[k].company, unique_jobs[i].company)
    /\ \E i, k \in 1..Len(unique_jobs) :
          /\ i < k
          /\ ~unique_jobs[i].free_to_apply /\ ~unique_jobs[k].free_to_apply
          /\ StrLess(unique_jobs[k].company, unique_jobs[i].company)
    /\ \E i, k \in 1..Len(unique_jobs) :
          i < k /\ ~unique_jobs[i].free_to_apply /\ unique_jobs[k].free_to_apply

\* C10: a dry run that found a new job exits with status 0 without
\* submitting an email and still persists every new link; a link so
\* persisted is in no email a later live run sends, though it is fetched
\* again.
C10_DryRunMarksJobsSeen ==
    /\ (DRY_RUN /\ pc = "exited" /\ unique_jobs # <<>>) =>
          /\ exit_code = 0
          /\ previewed
          /\ ~smtp_opened /\ ~email_sent
          /\ LinksOf(unique_jobs) \subseteq load_seen_jobs(file)
    /\ (watched # Absent /\ email_sent) => watched[1] \notin RenderedLinks

C10_Witness ==
    /\ watched # Absent
    /\ ~DRY_RUN
    /\ email_sent
    /\ pc = "exited"
    /\ watched[1] \in LinksOf(jobs)

====
